---- MODULE Spec2Model ----
(***************************************************************************)
(* The chat client (frontend/src/App.tsx) together with the backend it     *)
(* talks to.  The client is modelled from App.tsx.  The backend sources    *)
(* (backend/main.py, backend/models.py) are not part of the source tree,   *)
(* so the Session Store, the Protocol Codec, the Orchestrator and the      *)
(* Lifecycle Sweeper are modelled from the design document.                *)
(*                                                                         *)
(* Strings that the program inspects are sequences of one-character        *)
(* strings, so that trim() is computed and not assumed.  Session ids are   *)
(* the naturals 1, 2, ... in minting order; 0 is the empty string ''.      *)
(***************************************************************************)
EXTENDS Integers, Sequences, FiniteSets, TLC

\* ------------------------------------------------------------------ bounds
\* Total number of POST /chat requests (client and other callers together).
MaxReq == 2
\* Number of session ids the client mints (one at mount, one per CLEAR).
MaxSessions == 2

\* ------------------------------------------------------------ value spaces
NoSession == 0
SessionIds == 1..MaxSessions

\* What the user can have in the input box.
Texts == { <<>>, <<" ">>, <<" ", "a">> }
\* What the language model can answer in plain text.
ReplyTexts == { <<>>, <<"h", "i">> }
\* What the language model can ask to run.
Statements == { <<"SELECT", "1">>, <<"DROP", "TABLE", "users">> }
AllowList == { "SELECT" }

Undefined == <<"undefined">>
NoPayload == [present |-> FALSE, text |-> Undefined, result |-> Undefined]
NoEnvelope == [type |-> "", payload |-> NoPayload]
NoResponse == [kind |-> "none", ok |-> FALSE, status |-> "", parsable |-> FALSE,
               data |-> NoEnvelope]
NoDecision == [kind |-> "none", text |-> Undefined, sql |-> Undefined]
NoSessionRec == [exists |-> FALSE, status |-> "none", turns |-> <<>>]

VARIABLES
  messages,    \* App.tsx:12  the displayed list
  inputText,   \* App.tsx:13
  sessionId,   \* App.tsx:14
  isLoading,   \* App.tsx:15
  mounted,     \* whether the mount effect (App.tsx:18-21) has run
  minted,      \* how many session ids the client has minted so far
  reqs,        \* every POST /chat request made so far, oldest first
  sessions,    \* the Session Store
  purged       \* history: the Turns (request, role) that a clear or an
               \* expiry reset has removed from the store

vars == <<messages, inputText, sessionId, isLoading, mounted, minted,
          reqs, sessions, purged>>
clientVars == <<messages, inputText, sessionId, isLoading, mounted, minted>>

serverVars == <<sessions, purged>>

\* ------------------------------------------------------------- String.trim
IsSpace(c) == c = " "

RECURSIVE TrimStart(_)
TrimStart(s) ==
  IF s = <<>> THEN s
  ELSE IF IsSpace(Head(s)) THEN TrimStart(Tail(s)) ELSE s

RECURSIVE TrimEnd(_)
TrimEnd(s) ==
  IF s = <<>> THEN s
  ELSE IF IsSpace(s[Len(s)]) THEN TrimEnd(SubSeq(s, 1, Len(s) - 1)) ELSE s

Trim(s) == TrimEnd(TrimStart(s))

\* ------------------------------------------------------- wire protocol (§6)
ChatReply(text) ==
  [type |-> "chat_reply",
   payload |-> [present |-> TRUE, text |-> text, result |-> Undefined]]

ResultEnvelope(rows) ==
  [type |-> "result",
   payload |-> [present |-> TRUE, text |-> Undefined, result |-> rows]]

HttpOk(data) ==
  [kind |-> "http", ok |-> TRUE, status |-> "200", parsable |-> TRUE, data |-> data]

HttpError(status) ==
  [kind |-> "http", ok |-> FALSE, status |-> status, parsable |-> FALSE,
   data |-> NoEnvelope]

\* fetch() rejects: the connection failed.
NetworkError == [kind |-> "network_error", ok |-> FALSE, status |-> "",
                 parsable |-> FALSE, data |-> NoEnvelope]

\* Answers of a responder that does not follow the protocol: a body that is
\* no JSON, an envelope of another type, a "result" envelope with no payload,
\* a "chat_reply" envelope with no payload.
ForeignResponses ==
  { [kind |-> "http", ok |-> TRUE, status |-> "200", parsable |-> FALSE,
     data |-> NoEnvelope],
    HttpOk([type |-> "error", payload |-> NoPayload]),
    HttpOk([type |-> "result", payload |-> NoPayload]),
    HttpOk([type |-> "chat_reply", payload |-> NoPayload]) }

\* ----------------------------------------------------- client: App.tsx
\* JSON.stringify of a value / of the whole envelope.
Stringify(v) == <<"json:">> \o v

StringifyEnvelope(data) ==
  <<"{type:", data.type, ",payload:">>
    \o (IF data.payload.present
          THEN <<"{text:">> \o data.payload.text \o <<",result:">>
                 \o data.payload.result \o <<"}">>
          ELSE Undefined)
    \o <<"}">>

\* JavaScript truthiness of data.payload?.text
Truthy(payload) ==
  payload.present /\ payload.text # Undefined /\ payload.text # <<>>

\* App.tsx:65-72
BotText(data) ==
  IF data.type = "chat_reply" /\ Truthy(data.payload)
    THEN data.payload.text
  ELSE IF data.type = "result"
    THEN <<"SQL Query Result:\n">> \o Stringify(data.payload.result)
  ELSE StringifyEnvelope(data)

\* The try block, App.tsx:43-81: either it throws (thrown, with the error's
\* message) or it computes the bot text.
TryBlock(resp) ==
  IF resp.kind = "network_error"
    THEN [thrown |-> TRUE, text |-> <<"Failed to fetch">>]
  ELSE IF ~resp.ok
    THEN [thrown |-> TRUE, text |-> <<"HTTP error! status: ", resp.status>>]
  ELSE IF ~resp.parsable
    THEN [thrown |-> TRUE, text |-> <<"Unexpected token">>]
  ELSE IF resp.data.type = "result" /\ ~resp.data.payload.present
    THEN [thrown |-> TRUE, text |-> <<"Cannot read properties of undefined">>]
  ELSE [thrown |-> FALSE, text |-> BotText(resp.data)]

BotMessage(r, text) ==
  [sender |-> "bot", text |-> text, sid |-> reqs[r].session_id, req |-> r]

\* Mutant: the catch block appends no error message.
SettleAppendsSwallowsError(r, resp) ==
  LET t == TryBlock(resp) IN
    IF t.thrown THEN << >> ELSE << BotMessage(r, t.text) >>

\* The messages the continuation appends: the reply (App.tsx:74-81) or the
\* error message of the catch block (App.tsx:82-90).
SettleAppends(r, resp) ==
  LET t == TryBlock(resp) IN
    IF t.thrown THEN << BotMessage(r, <<"Error: ">> \o t.text) >>
    ELSE << BotMessage(r, t.text) >>

\* The finally block, App.tsx:91-93.
LoadingAfterSettle(resp) == FALSE

\* Mutant: the guard tests the raw input, not the trimmed one.
AcceptsWithoutTrim(text, loading) == text # <<>> /\ ~loading

\* App.tsx:29, the guard of handleSendMessage.
Accepts(text, loading) == Trim(text) # <<>> /\ ~loading

\* Mutant: the handler forgets setIsLoading(true).
LoadingNotSet == FALSE

\* App.tsx:41
LoadingAfterSend == TRUE

\* App.tsx:51-56, the body of the request.
InboundEnvelope(sid, text) ==
  [origin |-> "app", type |-> "user_message", session_id |-> sid, text |-> text,
   st |-> "InFlight", decision |-> NoDecision, outcome |-> "none",
   out |-> NoResponse, delivered |-> FALSE, got |-> NoResponse]

\* App.tsx:18-21 and 98: a fresh session id.
FreshSessionId == minted + 1

\* App.tsx:18-21
MountEffect ==
  /\ ~mounted
  /\ mounted' = TRUE
  /\ sessionId' = FreshSessionId
  /\ minted' = minted + 1
  /\ UNCHANGED <<messages, inputText, isLoading, reqs, serverVars>>

\* App.tsx:170-171: typing; the input is disabled while loading.
OnChange(t) ==
  /\ mounted
  /\ ~isLoading
  /\ inputText' = t
  /\ UNCHANGED <<messages, sessionId, isLoading, mounted, minted, reqs,
                 serverVars>>

\* App.tsx:27-57: the synchronous part of handleSendMessage, up to fetch().
HandleSendMessage ==
  /\ mounted
  /\ IF Accepts(inputText, isLoading)
       THEN /\ Len(reqs) < MaxReq
            /\ messages' = Append(messages,
                 [sender |-> "user", text |-> inputText, sid |-> sessionId,
                  req |-> Len(reqs) + 1])
            /\ inputText' = <<>>
            /\ isLoading' = LoadingAfterSend
            /\ reqs' = Append(reqs, InboundEnvelope(sessionId, inputText))
       ELSE UNCHANGED <<messages, inputText, isLoading, reqs>>
  /\ UNCHANGED <<sessionId, mounted, minted, serverVars>>

\* App.tsx:59-93: the continuation of handleSendMessage once fetch settled
\* with resp.
Settle(r, resp) ==
  /\ messages' = messages \o SettleAppends(r, resp)
  /\ isLoading' = LoadingAfterSettle(resp)
  /\ UNCHANGED <<inputText, sessionId, mounted, minted, serverVars>>

Pending(r) == reqs[r].origin = "app" /\ ~reqs[r].delivered

Terminal(st) == st \in {"Completed", "Rejected", "Faulted"}

\* The backend's response arrives.
FetchResolves(r) ==
  /\ Pending(r)
  /\ Terminal(reqs[r].st)
  /\ reqs' = [reqs EXCEPT ![r].delivered = TRUE, ![r].got = reqs[r].out]
  /\ Settle(r, reqs[r].out)

\* fetch() rejects.
FetchRejects(r) ==
  /\ Pending(r)
  /\ reqs' = [reqs EXCEPT ![r].delivered = TRUE, ![r].got = NetworkError]
  /\ Settle(r, NetworkError)

\* fetch() settles with a response that the Orchestrator modelled below did
\* not produce for this request.
FetchOther(r, resp) ==
  /\ Pending(r)
  /\ reqs[r].st = "InFlight"
  /\ reqs' = [reqs EXCEPT ![r].delivered = TRUE, ![r].got = resp, ![r].st = "Lost"]
  /\ Settle(r, resp)

\* App.tsx:96-100
ClearChat ==
  /\ mounted
  /\ minted < MaxSessions
  /\ messages' = <<>>
  /\ sessionId' = FreshSessionId
  /\ minted' = minted + 1
  /\ UNCHANGED <<inputText, isLoading, mounted, reqs, serverVars>>

\* ------------------------------------------- backend (design document)
\* Mutant: create_or_get starts a new session even when an active one exists.
CreateOrGetAlwaysNew(store, id) ==
  [store EXCEPT ![id] = [exists |-> TRUE, status |-> "active", turns |-> <<>>]]

\* Mutant: clear leaves a tombstone that keeps the Turns.
ClearSessionKeepsTurns(store, id) ==
  IF store[id].exists THEN [store EXCEPT ![id].status = "expired"] ELSE store

\* §4.1 Session Store
CreateOrGet(store, id) ==
  IF ~store[id].exists \/ store[id].status = "expired"
    THEN [store EXCEPT ![id] = [exists |-> TRUE, status |-> "active", turns |-> <<>>]]
    ELSE store

AppendTurn(store, id, turn) ==
  [store EXCEPT ![id].turns = Append(@, turn)]

ClearSession(store, id) == [store EXCEPT ![id] = NoSessionRec]

History(id) == IF sessions[id].exists THEN sessions[id].turns ELSE <<>>

\* A Turn; req and busy are history: the request that appended it, and whether
\* another request on the same session was between its two Turns at that time.
Turn(role, content, r, busy) ==
  [role |-> role, content |-> content, req |-> r, busy |-> busy]

TurnIds(turns) == { <<turns[i].req, turns[i].role>> : i \in DOMAIN turns }

MidFlight(r) == reqs[r].st \in {"Adapted", "Querying"}

Busy(id, r) ==
  \E q \in DOMAIN reqs : q # r /\ reqs[q].session_id = id /\ MidFlight(q)

\* §4.2 Protocol Codec: the inbound envelope decodes.
WellFormed(req) ==
  /\ req.type = "user_message"
  /\ req.session_id # NoSession
  /\ Trim(req.text) # <<>>

\* §4.3 Tool-Invocation Adapter: what parsing the model's output can yield.
Respond(text) == [kind |-> "Respond", text |-> text, sql |-> Undefined]
RunQuery(sql) == [kind |-> "RunQuery", text |-> Undefined, sql |-> sql]
ModelUnavailable == [kind |-> "ModelUnavailable", text |-> Undefined, sql |-> Undefined]
Decisions ==
  {Respond(t) : t \in ReplyTexts} \cup {RunQuery(q) : q \in Statements}
    \cup {ModelUnavailable}

\* §4.4 Query Executor: the statement-class gate and the possible outcomes.
Allowed(sql) == Head(sql) \in AllowList
QueryOutcomes == {"Rows", "QueryTimeout", "QueryError"}
Rows == <<"[", "{count:42}", "]">>
ErrorText(kind) == <<"Sorry, that did not work: ", kind>>

\* A request of another caller than the chat client (curl, a second tab).
ExtRequest(type, sid, text) ==
  [origin |-> "ext", type |-> type, session_id |-> sid, text |-> text,
   st |-> "InFlight", decision |-> NoDecision, outcome |-> "none",
   out |-> NoResponse, delivered |-> TRUE, got |-> NoResponse]

\* Other callers address the first two sessions.
ExtSessionIds == SessionIds \cap {1, 2}

ExtEnvelopes ==
  {ExtRequest("user_message", sid, <<" ", "a">>) : sid \in ExtSessionIds}
    \cup { ExtRequest("ping", 1, <<" ", "a">>),
           ExtRequest("user_message", 1, <<" ">>),
           ExtRequest("user_message", NoSession, <<" ", "a">>) }

ExtSend(req) ==
  /\ Len(reqs) < MaxReq
  /\ reqs' = Append(reqs, req)
  /\ UNCHANGED <<clientVars, serverVars>>

\* §4.5 Received -> Adapted, or MalformedRequest.
Adapt(r) ==
  /\ reqs[r].st = "InFlight"
  /\ IF WellFormed(reqs[r])
       THEN LET id == reqs[r].session_id IN
            /\ sessions' = AppendTurn(CreateOrGet(sessions, id), id,
                                      Turn("user", reqs[r].text, r, Busy(id, r)))
            /\ purged' = IF sessions[id].status = "expired"
                            THEN purged \cup TurnIds(sessions[id].turns)
                            ELSE purged
            /\ reqs' = [reqs EXCEPT ![r].st = "Adapted"]
       ELSE /\ reqs' = [reqs EXCEPT ![r].st = "Rejected", ![r].out = HttpError("400")]
            /\ UNCHANGED serverVars
  /\ UNCHANGED clientVars

\* The assistant Turn is appended and the envelope encoded; append fails with
\* UnknownSession when the session is gone, which is a server fault (§7).
Complete(r, d, outcome, content, data) ==
  LET id == reqs[r].session_id IN
    IF sessions[id].exists
      THEN /\ sessions' = AppendTurn(sessions, id, Turn("assistant", content, r, FALSE))
           /\ reqs' = [reqs EXCEPT ![r].st = "Completed", ![r].decision = d,
                                   ![r].outcome = outcome, ![r].out = HttpOk(data)]
      ELSE /\ reqs' = [reqs EXCEPT ![r].st = "Faulted", ![r].decision = d,
                                   ![r].outcome = outcome, ![r].out = HttpError("500")]
           /\ UNCHANGED sessions

\* §4.5 Adapted -> Responding | Querying, and ModelUnavailable.
ModelReturns(r, d) ==
  /\ reqs[r].st = "Adapted"
  /\ CASE d.kind = "Respond" ->
            Complete(r, d, "none", d.text, ChatReply(d.text))
       [] d.kind = "ModelUnavailable" ->
            Complete(r, d, "none", ErrorText("ModelUnavailable"),
                     ChatReply(ErrorText("ModelUnavailable")))
       [] d.kind = "RunQuery" /\ ~Allowed(d.sql) ->
            Complete(r, d, "UnsafeStatement", ErrorText("UnsafeStatement"),
                     ChatReply(ErrorText("UnsafeStatement")))
       [] d.kind = "RunQuery" /\ Allowed(d.sql) ->
            /\ reqs' = [reqs EXCEPT ![r].st = "Querying", ![r].decision = d]
            /\ UNCHANGED sessions
  /\ UNCHANGED <<clientVars, purged>>

\* §4.5 Querying -> Completed.
QueryReturns(r, outcome) ==
  /\ reqs[r].st = "Querying"
  /\ IF outcome = "Rows"
       THEN Complete(r, reqs[r].decision, outcome, Rows, ResultEnvelope(Rows))
       ELSE Complete(r, reqs[r].decision, outcome, ErrorText(outcome),
                     ChatReply(ErrorText(outcome)))
  /\ UNCHANGED <<clientVars, purged>>

\* §6 DELETE /session/{session_id}
Delete(id) ==
  /\ sessions' = ClearSession(sessions, id)
  /\ purged' = purged \cup TurnIds(sessions[id].turns)
  /\ UNCHANGED <<clientVars, reqs>>

\* §3, §4.6: a session's last activity falls behind the idle threshold.
Expire(id) ==
  /\ sessions[id].exists
  /\ sessions[id].status = "active"
  /\ sessions' = [sessions EXCEPT ![id].status = "expired"]
  /\ UNCHANGED <<clientVars, reqs, purged>>

\* §4.6 one scan of the Session Lifecycle Sweeper.
Sweep ==
  /\ \E id \in SessionIds : sessions[id].status = "expired"
  /\ sessions' = [id \in SessionIds |->
                    IF sessions[id].status = "expired"
                      THEN ClearSession(sessions, id)[id]
                      ELSE sessions[id]]
  /\ purged' = purged \cup UNION { TurnIds(sessions[id].turns) :
                                    id \in {i \in SessionIds : sessions[i].status = "expired"} }
  /\ UNCHANGED <<clientVars, reqs>>

Init ==
  /\ messages = <<>>
  /\ inputText = <<>>
  /\ sessionId = NoSession
  /\ isLoading = FALSE
  /\ mounted = FALSE
  /\ minted = 0
  /\ reqs = <<>>
  /\ sessions = [id \in SessionIds |-> NoSessionRec]
  /\ purged = {}

Next ==
  \/ MountEffect
  \/ \E t \in Texts : OnChange(t)
  \/ HandleSendMessage
  \/ \E r \in DOMAIN reqs : FetchResolves(r)
  \/ \E r \in DOMAIN reqs : FetchRejects(r)
  \/ \E r \in DOMAIN reqs, resp \in ForeignResponses : FetchOther(r, resp)
  \/ ClearChat
  \/ \E req \in ExtEnvelopes : ExtSend(req)
  \/ \E r \in DOMAIN reqs : Adapt(r)
  \/ \E r \in DOMAIN reqs, d \in Decisions : ModelReturns(r, d)
  \/ \E r \in DOMAIN reqs, o \in QueryOutcomes : QueryReturns(r, o)
  \/ \E id \in SessionIds : Delete(id)
  \/ \E id \in SessionIds : Expire(id)
  \/ Sweep

Spec == Init /\ [][Next]_vars

\* Every response the backend can produce, whatever it did to get there.
BackendResponses ==
  {HttpOk(ChatReply(t)) : t \in ReplyTexts}
    \cup {HttpOk(ChatReply(ErrorText(k))) :
            k \in {"ModelUnavailable", "UnsafeStatement", "QueryTimeout", "QueryError"}}
    \cup {HttpOk(ResultEnvelope(Rows)), HttpError("400"), HttpError("500")}

\* The client alone: the backend is any responder.
NextClient ==
  \/ MountEffect
  \/ \E t \in Texts : OnChange(t)
  \/ HandleSendMessage
  \/ \E r \in DOMAIN reqs : FetchRejects(r)
  \/ \E r \in DOMAIN reqs, resp \in ForeignResponses \cup BackendResponses :
        FetchOther(r, resp)
  \/ ClearChat

SpecClient == Init /\ [][NextClient]_vars

\* The backend alone: its callers are any HTTP clients.
NextServer ==
  \/ \E req \in ExtEnvelopes : ExtSend(req)
  \/ \E r \in DOMAIN reqs : Adapt(r)
  \/ \E r \in DOMAIN reqs, d \in Decisions : ModelReturns(r, d)
  \/ \E r \in DOMAIN reqs, o \in QueryOutcomes : QueryReturns(r, o)
  \/ \E id \in SessionIds : Delete(id)
  \/ \E id \in SessionIds : Expire(id)
  \/ Sweep

SpecServer == Init /\ [][NextServer]_vars
\* ------------------------------------------------------------------ claims
AppReqs(rs) == {r \in DOMAIN rs : rs[r].origin = "app"}
PendingReqs == {r \in DOMAIN reqs : Pending(r)}
Last(seq) == seq[Len(seq)]
\* The request r's fetch settles in this step.
SettlesNow(r) == Pending(r) /\ reqs'[r].delivered

\* What the bot message would be if the envelope's type alone decided it.
ByTypeAlone(data) ==
  IF data.type = "chat_reply" THEN data.payload.text
  ELSE IF data.type = "result"
    THEN <<"SQL Query Result:\n">> \o Stringify(data.payload.result)
  ELSE StringifyEnvelope(data)

\* A "chat_reply" that carries a text and a "result" that carries a result
\* (§6), or an envelope of any other type.
Carries(data) ==
  /\ data.type = "chat_reply" => (data.payload.present /\ data.payload.text # Undefined)
  /\ data.type = "result" => (data.payload.present /\ data.payload.result # Undefined)

\* C1: whenever the client has received an envelope with an OK status, the bot
\* message it appended for that request is decided by the envelope's type
\* alone: payload.text for "chat_reply", the JSON of payload.result for
\* "result", the raw JSON of the envelope for every other type.
C1_TypeAloneDecides ==
  \A r \in DOMAIN reqs :
    (reqs[r].delivered /\ reqs[r].got.ok /\ reqs[r].got.parsable
       /\ Carries(reqs[r].got.data)) =>
      \A i \in DOMAIN messages :
        (messages[i].req = r /\ messages[i].sender = "bot") =>
          messages[i].text = ByTypeAlone(reqs[r].got.data)

\* C5: every request the client has posted is a well-formed inbound envelope
\* (type "user_message", a non-empty session id that was the client's session
\* id when it was sent, a payload.text that is non-empty after trimming), and
\* no user message with a blank text is ever in the list: a blank submission
\* sends nothing and appends nothing.
C5_RequestsWellFormed ==
  [][ /\ \A r \in AppReqs(reqs') :
           /\ reqs'[r].type = "user_message"
           /\ reqs'[r].session_id # NoSession
           /\ Trim(reqs'[r].text) # <<>>
      /\ \A r \in AppReqs(reqs') \ DOMAIN reqs :
           /\ reqs'[r].session_id = sessionId
           /\ reqs'[r].text = inputText
      /\ Trim(inputText) = <<>> =>
           /\ AppReqs(reqs') = AppReqs(reqs)
           /\ \/ Len(messages') <= Len(messages)
              \/ Last(messages').sender = "bot"
      /\ \A i \in DOMAIN messages' :
           messages'[i].sender = "user" => Trim(messages'[i].text) # <<>>
    ]_vars

\* C5 witness: the client has posted a request whose text has surrounding
\* white space but is not blank.
C5_Witness ==
  \E r \in AppReqs(reqs) :
    /\ reqs[r].text # Trim(reqs[r].text)
    /\ reqs[r].session_id = sessionId

\* C6: a CLEAR (the client's session id changes from a non-empty one) removes
\* the previous session and its Turns from the Session Store.
C6_ClearReachesServer ==
  [][ (sessionId # NoSession /\ sessionId' # sessionId) =>
        ~sessions'[sessionId].exists ]_vars

\* C8: the client never has more than one /chat request in flight, and a
\* request is sent only when none is in flight.
C8_OneInFlight ==
  [][ /\ Cardinality({r \in DOMAIN reqs' : reqs'[r].origin = "app"
                                            /\ ~reqs'[r].delivered}) <= 1
      /\ (AppReqs(reqs') # AppReqs(reqs)) => (PendingReqs = {} /\ ~isLoading)
      /\ PendingReqs # {} => isLoading
    ]_vars

\* C8 witness: a second request is in flight after the first one has been
\* settled.
C8_Witness ==
  /\ Len(reqs) = 2
  /\ reqs[1].origin = "app" /\ reqs[1].delivered
  /\ Pending(2)
  /\ isLoading

\* C9: the step in which an accepted submission's fetch settles appends
\* exactly one message, a bot message of that submission, directly after the
\* submission's user message when that is still displayed, and leaves
\* isLoading false; no other step appends a bot message.
C9_OneBotMessagePerCycle ==
  [][ /\ \A r \in DOMAIN reqs :
           SettlesNow(r) =>
             /\ Len(messages') = Len(messages) + 1
             /\ SubSeq(messages', 1, Len(messages)) = messages
             /\ Last(messages').sender = "bot"
             /\ Last(messages').req = r
             /\ \A i \in DOMAIN messages :
                  messages[i].req = r =>
                    (i = Len(messages) /\ messages[i].sender = "user")
             /\ isLoading' = FALSE
      /\ (\A r \in DOMAIN reqs : ~SettlesNow(r)) =>
           \/ Len(messages') <= Len(messages)
           \/ Last(messages').sender = "user"
    ]_vars

\* C9 witness: a request that got a non-OK status has been settled; the list
\* ends with its user message and its one bot message, and loading is over.
C9_Witness ==
  \E r \in AppReqs(reqs) :
    /\ reqs[r].delivered
    /\ reqs[r].got.kind = "http" /\ ~reqs[r].got.ok
    /\ Len(messages) >= 2
    /\ messages[Len(messages) - 1].sender = "user"
    /\ messages[Len(messages) - 1].req = r
    /\ Last(messages).sender = "bot"
    /\ Last(messages).req = r
    /\ ~isLoading

\* C10: every displayed message belongs to the client's current session.
C10_OnlyCurrentSession ==
  \A i \in DOMAIN messages : messages[i].sid = sessionId

\* Backend claims.
PassedDecoding(r) == reqs[r].st \in {"Adapted", "Querying", "Completed", "Faulted"}
CallsOn(id) == {r \in DOMAIN reqs : reqs[r].session_id = id /\ PassedDecoding(r)}
\* The calls on id so far were a plain sequence of /chat calls: nothing purged
\* its Turns, and no call began while another one was between its two Turns.
PlainSequence(id) ==
  /\ \A r \in CallsOn(id) : <<r, "user">> \notin purged
  /\ \A i \in DOMAIN sessions[id].turns : ~sessions[id].turns[i].busy
Quiescent(id) == \A r \in CallsOn(id) : ~MidFlight(r)
IsPrefix(a, b) == Len(a) <= Len(b) /\ SubSeq(b, 1, Len(a)) = a

TwoPerCall(id) ==
  LET h == History(id)
      n == Cardinality(CallsOn(id))
  IN /\ Len(h) = 2 * n
     /\ \A k \in 1..n :
          /\ h[2 * k - 1].role = "user"
          /\ h[2 * k].role = "assistant"
          /\ h[2 * k - 1].req = h[2 * k].req
          /\ h[2 * k].req \in CallsOn(id)
          /\ h[2 * k - 1].content = reqs[h[2 * k].req].text
          /\ \A j \in 1..n : j # k => h[2 * j].req # h[2 * k].req

\* C2: for every session id whose calls so far were a plain sequence of /chat
\* calls, once none of them is under way the history holds exactly two Turns
\* per call that passed decoding, the call's user Turn followed by its
\* assistant Turn, and the history only grows at its end (call order); a call
\* rejected as malformed changes nothing in the Session Store.
C2_TwoTurnsPerCall ==
  [][ /\ \A id \in SessionIds :
           (PlainSequence(id) /\ Quiescent(id))' => TwoPerCall(id)'
      /\ \A id \in SessionIds :
           PlainSequence(id)' => IsPrefix(History(id), History(id)')
      /\ \A r \in DOMAIN reqs :
           (reqs[r].st = "InFlight" /\ reqs'[r].st = "Rejected") =>
             sessions' = sessions
      /\ \A r \in DOMAIN reqs' :
           (reqs'[r].type # "user_message" \/ reqs'[r].session_id = NoSession
              \/ Trim(reqs'[r].text) = <<>>) => ~PassedDecoding(r)'
    ]_vars

\* C2 witness: two calls on one session have completed one after the other
\* and the history holds their four Turns.
C2_Witness ==
  \E id \in SessionIds :
    /\ PlainSequence(id) /\ Quiescent(id)
    /\ Cardinality(CallsOn(id)) = 2
    /\ Len(History(id)) = 4

\* C3: every request that passed decoding and has ended is Completed with one
\* outbound envelope, which is a "result" exactly when the adapter returned
\* RunQuery and the Query Executor succeeded, and a "chat_reply" otherwise.
C3_OneEnvelope ==
  \A r \in DOMAIN reqs :
    (PassedDecoding(r) /\ ~MidFlight(r)) =>
      /\ reqs[r].st = "Completed"
      /\ reqs[r].out.ok
      /\ reqs[r].out.data.type \in {"chat_reply", "result"}
      /\ reqs[r].out.data.type = "result" <=>
           (reqs[r].decision.kind = "RunQuery" /\ reqs[r].outcome = "Rows")

\* C4: a clear(id) leaves history(id) empty, the create_or_get(id) that
\* follows starts a session that holds only the new user Turn, and no Turn
\* that was purged is visible in any history.
C4_ClearIsFinal ==
  [][ /\ \A id \in SessionIds :
           (\E t \in TurnIds(sessions[id].turns) : t \in purged' \ purged) =>
             \/ History(id)' = <<>>
             \/ /\ sessions[id].status = "expired"
                /\ Len(History(id)') = 1
                /\ <<History(id)'[1].req, "user">> \notin TurnIds(sessions[id].turns)
      /\ \A id \in SessionIds :
           (~sessions[id].exists /\ sessions'[id].exists) =>
             /\ Len(History(id)') = 1
             /\ History(id)'[1].role = "user"
      /\ \A id \in SessionIds : TurnIds(History(id)') \cap purged' = {}
    ]_vars

\* C4 witness: a session that held Turns has been cleared and created again;
\* its history holds only the Turn of the new call.
C4_Witness ==
  \E id \in SessionIds :
    /\ \E t \in purged : reqs[t[1]].session_id = id
    /\ sessions[id].exists
    /\ Len(History(id)) = 1

\* C7: no request ends with UnknownSession.
C7_UnknownSessionUnreachable ==
  \A r \in DOMAIN reqs : reqs[r].st # "Faulted"
====
